---------------------------- MODULE Spec2Model ----------------------------
(***************************************************************************)
(* Portfolio Analyzer (src/portfolio.py): one run of the Analyze handler.  *)
(*                                                                         *)
(* Numbers.  The program computes in floating point; the model computes    *)
(* the same quantities exactly, as scaled integers:                        *)
(*   - a price, a value, an allocation: an integer amount of money;        *)
(*   - a weekly return: the fraction times RetScale (exact for PriceSet);  *)
(*   - an annualized mean / (co)variance: times RetScale (RetScale^2) and  *)
(*     times DenScale, the common multiple of the sample denominators;     *)
(*   - a weight vector: integer numerators over a common denominator (the  *)
(*     current weights and the solver's weights over total_val, the        *)
(*     realized weights over the realized total);                          *)
(*   - a standard deviation: carried as its square (the variance);         *)
(*   - a Sharpe ratio: the pair (num, rad) standing for num / sqrt(rad).   *)
(* A float is a record [nan, v]; NaN propagates through arithmetic.        *)
(***************************************************************************)
EXTENDS Integers, Sequences, FiniteSets

\* ------------------------------------------------------------ bounds
MaxQty == 2
MaxHist == 3

\* ------------------------------------------------- program constants
WeeksPerYear == 52
MaxSelect == 10

\* TICKER_LIST, cut to its first two entries
TICKER_LIST == <<"AAPL", "MSFT">>
Tickers == {TICKER_LIST[i] : i \in 1..Len(TICKER_LIST)}

\* closing prices the market-data provider may deliver (money units)
PriceSet == {1, 2}
\* risk-free rates the sidebar may deliver (units of 1/(RetScale*DenScale))
RfSet == {0, 1}

\* ------------------------------------------------------- arithmetic
RECURSIVE Factorial(_)
Factorial(n) == IF n <= 1 THEN 1 ELSE n * Factorial(n - 1)

RECURSIVE Gcd(_, _)
Gcd(a, b) == IF b = 0 THEN a ELSE Gcd(b, a % b)

Lcm(a, b) == (a * b) \div Gcd(a, b)

RECURSIVE LcmOf(_)
LcmOf(S) == IF S = {} THEN 1
            ELSE LET x == CHOOSE y \in S : TRUE IN Lcm(x, LcmOf(S \ {x}))

\* every (p2 - p1) / p1 over PriceSet is a whole multiple of 1/RetScale
RetScale == LcmOf(PriceSet)
\* every sample denominator N and N*(N-1), N < MaxHist, divides DenScale
DenScale == Factorial(MaxHist - 1)

RECURSIVE SeqSum(_)
SeqSum(s) == IF Len(s) = 0 THEN 0 ELSE s[1] + SeqSum(Tail(s))

Min(a, b) == IF a <= b THEN a ELSE b

\* ----------------------------------------------------------- floats
NaN == [nan |-> TRUE, v |-> 0]
Fl(x) == [nan |-> FALSE, v |-> x]
FAdd(a, b) == IF a.nan \/ b.nan THEN NaN ELSE Fl(a.v + b.v)
FScale(k, a) == IF a.nan THEN NaN ELSE Fl(k * a.v)

RECURSIVE FSum(_)
FSum(s) == IF Len(s) = 0 THEN Fl(0) ELSE FAdd(s[1], FSum(Tail(s)))

\* p/q <= r/s for p, r >= 0 and q, s > 0, without cross-multiplying
RECURSIVE FracLeq(_, _, _, _)
FracLeq(p, q, r, s) ==
    LET a == p \div q
        b == r \div s
    IN IF a # b THEN a < b
       ELSE IF p % q = 0 THEN TRUE
       ELSE IF r % s = 0 THEN FALSE
       ELSE FracLeq(s, r % s, q, p % q)

\* a.num/sqrt(a.rad) <= b.num/sqrt(b.rad), both defined (rad > 0)
RatioLeq(a, b) ==
    IF a.num <= 0 /\ b.num >= 0 THEN TRUE
    ELSE IF a.num >= 0 /\ b.num <= 0 THEN FALSE
    ELSE IF a.num > 0
         THEN FracLeq(a.num * a.num, a.rad, b.num * b.num, b.rad)
         ELSE FracLeq(b.num * b.num, b.rad, a.num * a.num, a.rad)

RatioNaN == [nan |-> TRUE, num |-> 0, rad |-> 1]


\* ------------------------------------------------------ risk model
\* hist.pct_change().dropna()
PctChange(hist) ==
    [k \in 1..(Len(hist) - 1) |->
        ((hist[k + 1] - hist[k]) * RetScale) \div hist[k]]

\* weekly_ret.mean() * 52 (the mean of an empty series is NaN)
ExpRet(ret) ==
    IF Len(ret) = 0 THEN NaN
    ELSE Fl(SeqSum(ret) * WeeksPerYear * (DenScale \div Len(ret)))

\* the last n entries of a series: histories end in the same week, so two
\* series overlap in the last min(length) weeks
LastN(s, n) == SubSeq(s, Len(s) - n + 1, Len(s))

\* the covariance with the cross products taken from the first series alone
CovPairOfSquares(a, b) ==
    LET n == Min(Len(a), Len(b))
        x == LastN(a, n)
        y == LastN(b, n)
        sxx == SeqSum([k \in 1..n |-> x[k] * x[k]])
    IN IF n < 2 THEN NaN
       ELSE Fl((n * sxx - SeqSum(x) * SeqSum(y)) * WeeksPerYear
               * (DenScale \div (n * (n - 1))))

\* sample covariance (N-1 denominator) over the overlapping weeks, times 52;
\* fewer than 2 overlapping observations give NaN
CovPair(a, b) ==
    LET n == Min(Len(a), Len(b))
        x == LastN(a, n)
        y == LastN(b, n)
        sxy == SeqSum([k \in 1..n |-> x[k] * y[k]])
    IN IF n < 2 THEN NaN
       ELSE Fl((n * sxy - SeqSum(x) * SeqSum(y)) * WeeksPerYear
               * (DenScale \div (n * (n - 1))))

\* the population variance (N denominator, numpy's default) times 52
StdDevSqPopulation(ret) ==
    LET n == Len(ret)
        sxx == SeqSum([k \in 1..n |-> ret[k] * ret[k]])
    IN IF n < 1 THEN NaN
       ELSE Fl(((n * sxx - SeqSum(ret) * SeqSum(ret)) * WeeksPerYear * DenScale)
               \div (n * n))

\* (weekly_ret.std() * sqrt(52)) squared
StdDevSq(ret) == CovPair(ret, ret)

\* pd.DataFrame(returns_weekly).cov() * 52: columns in insertion (fetch) order
CovMatrix(rw) ==
    [i \in 1..Len(rw) |-> [j \in 1..Len(rw) |-> CovPair(rw[i].ret, rw[j].ret)]]

\* np.dot(w, mu): positional
Dot(w, mu) == FSum([k \in 1..Len(w) |-> FScale(w[k], mu[k])])

\* w @ C @ w: positional
Quad(w, C) ==
    FSum([i \in 1..Len(w) |->
            FSum([j \in 1..Len(w) |-> FScale(w[i] * w[j], C[i][j])])])

\* the ratio with 0 in place of nan at zero volatility, as neg_sharpe has it
SharpeOfZeroWhenFlat(exp, var, rfv, den) ==
    IF var.nan \/ exp.nan THEN RatioNaN
    ELSE IF var.v < 0 THEN RatioNaN
    ELSE IF var.v = 0 THEN [nan |-> FALSE, num |-> 0, rad |-> 1]
    ELSE [nan |-> FALSE, num |-> exp.v - rfv * den, rad |-> var.v * DenScale]

\* (exp - rf) / std if std else nan, for weights over the denominator den
SharpeOf(exp, var, rfv, den) ==
    IF var.nan \/ exp.nan THEN RatioNaN
    ELSE IF var.v <= 0 THEN RatioNaN
    ELSE [nan |-> FALSE, num |-> exp.v - rfv * den, rad |-> var.v * DenScale]

\* ------------------------------------------------------- tables
\* the position of r in a table sorted descending by Total, after its equals
InsertDesc(r, t) ==
    LET k == Cardinality({i \in 1..Len(t) : t[i].Total >= r.Total})
    IN SubSeq(t, 1, k) \o <<r>> \o SubSeq(t, k + 1, Len(t))

\* sort_values("Total value", ascending=False): ties keep their order
RECURSIVE SortDesc(_)
SortDesc(s) ==
    IF Len(s) = 0 THEN <<>>
    ELSE InsertDesc(s[Len(s)], SortDesc(SubSeq(s, 1, Len(s) - 1)))

\* the sum of the 'Value per Share' column in place of 'Total value'
TotalValOfPrices(d) == SeqSum([k \in 1..Len(d) |-> d[k].Price])

\* total_val = df['Total value'].sum()
TotalVal(d) == SeqSum([k \in 1..Len(d) |-> d[k].Total])

\* the weights taken from 'Value per Share' in place of 'Total value'
WeightsOfPrices(d) == [k \in 1..Len(d) |-> d[k].Price]

\* w0 = df['Total value'] / total_val: the numerators over total_val
Weights(d) == [k \in 1..Len(d) |-> d[k].Total]

RECURSIVE SelectSeq2(_, _)
SelectSeq2(s, qs) ==
    IF Len(s) = 0 THEN <<>>
    ELSE (IF qs[s[1]] > 0 THEN <<[t |-> s[1], q |-> qs[s[1]]]>> ELSE <<>>)
         \o SelectSeq2(Tail(s), qs)

\* the filter with qty >= 0 in place of qty > 0
GatherDataNonNegative(sel, qs) ==
    [k \in 1..Len(sel) |-> [t |-> sel[k], q |-> qs[sel[k]]]]

\* data = [(t, qty) for t, qty in qtys.items() if qty > 0]
GatherData(sel, qs) == SelectSeq2(sel, qs)

\* ------------------------------------------------------ allocator
\* np.round(a / p): to the nearest integer, a half to the even neighbour
RoundHalfEven(a, p) ==
    LET q == a \div p
        r == a % p
    IN IF 2 * r < p THEN q
       ELSE IF 2 * r > p THEN q + 1
       ELSE IF q % 2 = 0 THEN q ELSE q + 1

\* rounding up by truncating and adding one share
SharesTruncPlusOne(a, p) == (a \div p) + 1

\* the rounding without the floor of one share
SharesNoFloor(a, p) == RoundHalfEven(a, p)

\* shares = np.round(alloc / price).astype(int); shares[shares < 1] = 1
Shares(a, p) ==
    LET s == RoundHalfEven(a, p) IN IF s < 1 THEN 1 ELSE s

\* the allocation table before sorting, in df order
OptRows(d, x) ==
    [k \in 1..Len(d) |->
        [Ticker |-> d[k].Ticker,
         Qty    |-> Shares(x[k], d[k].Price),
         Price  |-> d[k].Price,
         Total  |-> Shares(x[k], d[k].Price) * d[k].Price]]

\* ------------------------------------------------------ optimizer
\* neg_sharpe(w) = -(r - rf) / s if s else 0, w over the denominator den
NegSharpe(w, mu, C, rfv, den) ==
    LET r == Dot(w, mu)
        s2 == Quad(w, C)
    IN IF ~s2.nan /\ s2.v = 0 THEN [nan |-> FALSE, num |-> 0, rad |-> 1]
       ELSE IF s2.nan \/ r.nan \/ s2.v < 0 THEN RatioNaN
       ELSE [nan |-> FALSE, num |-> -(r.v - rfv * den), rad |-> s2.v * DenScale]

\* mu = df['Expected Return'].values: in df order
Mu(d) == [k \in 1..Len(d) |-> d[k].ExpRet]

\* bounds = [(price / total_val, 1.0) ...]: numerators over total_val
LowerBounds(d) == [k \in 1..Len(d) |-> d[k].Price]

InBounds(x, lo, T) == \A k \in 1..Len(x) : lo[k] <= x[k] /\ x[k] <= T

\* what scipy.optimize.minimize may return.  Converged: a point within the
\* bounds and on the constraint sum(w) = 1 that is the starting point itself
\* or has a strictly lower objective (a descent from a feasible start; NaN
\* objectives order nothing).  Not converged: the last iterate, any vector of
\* the grid, on or off the constraint.
SolverOutcomes(x0, lo, T, mu, C, rfv) ==
    LET all == [1..Len(x0) -> 0..T]
        f0 == NegSharpe(x0, mu, C, rfv, T)
        ok(x) == /\ InBounds(x, lo, T)
                 /\ SeqSum(x) = T
                 /\ \/ x = x0
                    \/ LET fx == NegSharpe(x, mu, C, rfv, T)
                       IN fx.nan \/ f0.nan \/ ~RatioLeq(f0, fx)
    IN {[success |-> TRUE, x |-> x] : x \in {y \in all : ok(y)}}
       \cup {[success |-> FALSE, x |-> x] : x \in all}

\* ------------------------------------------------------------ state
VARIABLES
    selected,        \* the multiselect's tickers, in selection order
    qtys,            \* ticker -> quantity entered
    rf,              \* risk-free rate
    sidebar_error,   \* "Please select at most 10 tickers." is shown
    pc,              \* "input", "fetch", "stopped", "crashed", "optimize", "done"
    message,         \* the st.error / exception that ended the run, or "none"
    data,            \* the (ticker, qty) pairs with qty > 0
    idx,             \* position of the fetch loop in data
    fetched,         \* tickers whose history was requested
    warnings,        \* tickers skipped with st.warning
    rows,            \* summary rows, in fetch order
    returns_weekly,  \* the dict ticker -> weekly returns, in insertion order
    df,              \* rows sorted by Total value, descending
    total_val,
    w0,              \* current weights (numerators over total_val), df order
    cov,             \* covariance matrix, fetch order
    port_exp, port_var, port_sharpe,
    res,             \* the solver's result
    w_opt,           \* optimized weights (numerators over total_val)
    opt,             \* allocation table sorted by Total value, descending
    w_opt_act,       \* realized weights (numerators over the realized total)
    exp_opt, var_opt, sharpe_opt

inputs == <<selected, qtys, rf, sidebar_error>>
loop == <<data, idx, fetched, warnings, rows, returns_weekly>>
current == <<df, total_val, w0, cov, port_exp, port_var, port_sharpe>>
optimized == <<res, w_opt, opt, w_opt_act, exp_opt, var_opt, sharpe_opt>>
vars == <<inputs, pc, message, loop, current, optimized>>

\* price histories the provider may deliver, oldest first
Histories == UNION {[1..n -> PriceSet] : n \in 0..MaxHist}

\* selections: distinct tickers.  Every step treats tickers alike, so one
\* selection order per set of tickers is explored (the order of TICKER_LIST);
\* the order of the summary table still differs from it, by value
ListPos(t) == CHOOSE i \in 1..Len(TICKER_LIST) : TICKER_LIST[i] = t
Selections ==
    {s \in UNION {[1..n -> Tickers] : n \in 0..Cardinality(Tickers)} :
        \A i, j \in 1..Len(s) : i < j => ListPos(s[i]) < ListPos(s[j])}

\* no solver result yet
NoResult == [success |-> FALSE, x |-> <<>>]

Init ==
    /\ selected \in Selections
    /\ qtys \in [{selected[i] : i \in 1..Len(selected)} -> 0..MaxQty]
    /\ rf \in RfSet
    /\ sidebar_error = (Len(selected) > MaxSelect)
    /\ pc = "input"
    /\ message = "none"
    /\ data = <<>> /\ idx = 1 /\ fetched = {} /\ warnings = {}
    /\ rows = <<>> /\ returns_weekly = <<>>
    /\ df = <<>> /\ total_val = 0 /\ w0 = <<>> /\ cov = <<>>
    /\ port_exp = NaN /\ port_var = NaN /\ port_sharpe = RatioNaN
    /\ res = NoResult /\ w_opt = <<>> /\ opt = <<>> /\ w_opt_act = <<>>
    /\ exp_opt = NaN /\ var_opt = NaN /\ sharpe_opt = RatioNaN

\* the Analyze button: gather the input, stop when no quantity is positive
Analyze ==
    /\ pc = "input"
    /\ data' = GatherData(selected, qtys)
    /\ IF data' = <<>>
       THEN pc' = "stopped" /\ message' = "Enter quantity > 0 for at least one selected ticker."
       ELSE pc' = "fetch" /\ message' = message
    /\ UNCHANGED <<inputs, idx, fetched, warnings, rows, returns_weekly,
                   current, optimized>>

\* one turn of the fetch loop: the provider delivers hist for data[idx]
Fetch ==
    /\ pc = "fetch"
    /\ idx <= Len(data)
    /\ \E hist \in Histories :
        LET t == data[idx].t
            q == data[idx].q
            weekly_ret == PctChange(hist)
            price == hist[Len(hist)]
        IN /\ fetched' = fetched \cup {t}
           /\ idx' = idx + 1
           /\ IF Len(hist) = 0
              THEN /\ warnings' = warnings \cup {t}
                   /\ UNCHANGED <<rows, returns_weekly>>
              ELSE /\ returns_weekly' =
                        Append(returns_weekly, [Ticker |-> t, ret |-> weekly_ret])
                   /\ rows' = Append(rows,
                        [Ticker |-> t,
                         ExpRet |-> ExpRet(weekly_ret),
                         StdSq  |-> StdDevSq(weekly_ret),
                         Qty    |-> q,
                         Price  |-> price,
                         Total  |-> price * q])
                   /\ UNCHANGED warnings
    /\ UNCHANGED <<inputs, pc, message, data, current, optimized>>

\* the summary table and the current metrics; an empty rows list has no
\* "Ticker" column and set_index raises KeyError
Summarize ==
    /\ pc = "fetch"
    /\ idx > Len(data)
    /\ IF rows = <<>>
       THEN /\ pc' = "crashed"
            /\ message' = "KeyError"
            /\ UNCHANGED current
       ELSE /\ df' = SortDesc(rows)
            /\ total_val' = TotalVal(df')
            /\ w0' = Weights(df')
            /\ cov' = CovMatrix(returns_weekly)
            /\ port_exp' = Dot(w0', Mu(df'))
            /\ port_var' = Quad(w0', cov')
            /\ port_sharpe' = SharpeOf(port_exp', port_var', rf, total_val')
            /\ pc' = "optimize"
            /\ message' = message
    /\ UNCHANGED <<inputs, loop, optimized>>

\* the solver call, the allocation table and the optimized metrics
Optimize ==
    /\ pc = "optimize"
    /\ res' \in SolverOutcomes(w0, LowerBounds(df), total_val, Mu(df), cov, rf)
    /\ w_opt' = res'.x
    /\ opt' = SortDesc(OptRows(df, w_opt'))
    /\ w_opt_act' = [k \in 1..Len(opt') |-> opt'[k].Total]
    /\ exp_opt' = Dot(w_opt_act', Mu(df))
    /\ var_opt' = Quad(w_opt_act', cov)
    /\ sharpe_opt' = SharpeOf(exp_opt', var_opt', rf, SeqSum(w_opt_act'))
    /\ pc' = "done"
    /\ UNCHANGED <<inputs, message, loop, current>>

Next == Analyze \/ Fetch \/ Summarize \/ Optimize

Spec == Init /\ [][Next]_vars

\* a selection one ticker over the limit: the first eleven of TICKER_LIST,
\* with quantities entered for the tickers of Tickers and 0 left on the rest
OverLimitSelection ==
    <<"AAPL", "MSFT", "GOOGL", "AMZN", "FB", "TSLA", "BRK-B", "JPM", "JNJ",
      "V", "WMT">>

InitOverLimit ==
    /\ selected = OverLimitSelection
    /\ \E q \in [Tickers -> 0..MaxQty] :
          qtys = [t \in {selected[i] : i \in 1..Len(selected)} |->
                    IF t \in Tickers THEN q[t] ELSE 0]
    /\ rf \in RfSet
    /\ sidebar_error = (Len(selected) > MaxSelect)
    /\ pc = "input"
    /\ message = "none"
    /\ data = <<>> /\ idx = 1 /\ fetched = {} /\ warnings = {}
    /\ rows = <<>> /\ returns_weekly = <<>>
    /\ df = <<>> /\ total_val = 0 /\ w0 = <<>> /\ cov = <<>>
    /\ port_exp = NaN /\ port_var = NaN /\ port_sharpe = RatioNaN
    /\ res = NoResult /\ w_opt = <<>> /\ opt = <<>> /\ w_opt_act = <<>>
    /\ exp_opt = NaN /\ var_opt = NaN /\ sharpe_opt = RatioNaN

SpecOverLimit == InitOverLimit /\ [][Next]_vars


\* ------------------------------------------------- holdings by ticker
Finished == pc = "done"
Evaluated == pc \in {"optimize", "done"}

\* position of ticker t in a table
PosOf(tab, t) == CHOOSE k \in 1..Len(tab) : tab[k].Ticker = t
HeldTickers == {df[k].Ticker : k \in 1..Len(df)}
\* the holding's own expected return, return series and held quantity
MuOf(t) == rows[PosOf(rows, t)].ExpRet
RetOf(t) == returns_weekly[PosOf(returns_weekly, t)].ret
QtyOf(t) == rows[PosOf(rows, t)].Qty

\* expected return and variance of weights w (ticker -> numerator), each
\* holding's weight paired with that holding's own return and covariance
PairedExp(w) ==
    FSum([k \in 1..Len(df) |-> FScale(w[df[k].Ticker], MuOf(df[k].Ticker))])
PairedVar(w) ==
    FSum([i \in 1..Len(df) |->
            FSum([j \in 1..Len(df) |->
                    FScale(w[df[i].Ticker] * w[df[j].Ticker],
                           CovPair(RetOf(df[i].Ticker), RetOf(df[j].Ticker)))])])
PairedSharpe(w, den) == SharpeOf(PairedExp(w), PairedVar(w), rf, den)

\* a weight vector in df order as a map from tickers
ByTicker(tab, w) == [t \in HeldTickers |-> w[PosOf(tab, t)]]

\* every holding in the run has a defined expected return and variance
\* (a history of at least three closing prices)
FullHistories ==
    \A k \in 1..Len(rows) : ~rows[k].ExpRet.nan /\ ~rows[k].StdSq.nan

RealizedTotal == SeqSum([k \in 1..Len(opt) |-> opt[k].Total])
PriceTotal == SeqSum([k \in 1..Len(df) |-> df[k].Price])

\* ------------------------------------------------------------ claims
\* The refuted claims are stated on runs with full histories, and (except C2)
\* a converged solver, so that each refutation stands on its own.

\* C1: the weight vector the Optimizer emits has sum(w) = 1 and, for every
\* holding, w[i] >= floor[i] = held quantity x price / total capital.
C1_OutputRespectsHeldFloors ==
    (Finished /\ FullHistories /\ res.success) =>
        /\ SeqSum(w_opt) = total_val
        /\ \A k \in 1..Len(df) : w_opt[k] >= df[k].Qty * df[k].Price

\* C2: when the solver reports non-convergence the Optimizer returns the
\* starting weights unchanged; the unconverged iterate is never used.
C2_FallbackOnNonConvergence ==
    (Finished /\ FullHistories /\ ~res.success) => w_opt = w0

\* C3: position k of the weight vector, of the expected-return vector and
\* row/column k of the covariance matrix denote the same holding.
C3_PositionsDenoteSameHolding ==
    (Evaluated /\ FullHistories) =>
        \A k \in 1..Len(df) : df[k].Ticker = returns_weekly[k].Ticker

\* C4: the optimized metrics pair each holding's realized weight
\* (rounded shares x price / realized total) with that same holding's
\* expected return and covariance row/column; realized weights sum to 1.
C4_RealizedMetricsPaired ==
    (Finished /\ FullHistories /\ res.success) =>
        LET wa == [t \in HeldTickers |->
                     opt[PosOf(opt, t)].Qty * opt[PosOf(opt, t)].Price]
        IN /\ SeqSum(w_opt_act) = RealizedTotal
           /\ exp_opt = PairedExp(wa)
           /\ var_opt = PairedVar(wa)

\* C5: no holding's target share count is below the quantity currently held.
C5_NeverBelowHeldQuantity ==
    (Finished /\ FullHistories /\ res.success) =>
        \A k \in 1..Len(opt) : opt[k].Qty >= QtyOf(opt[k].Ticker)

\* C6 (as claimed): for optimized weights that sum to 1, the allocation's
\* total value never exceeds the available capital.
C6_TotalWithinCapital ==
    (Finished /\ FullHistories /\ res.success /\ SeqSum(w_opt) = total_val)
        => RealizedTotal <= total_val

\* C6 (amended): for non-negative optimized weights that sum to 1, the
\* allocation's total value exceeds the capital by at most one share price
\* per holding, and by at most half a share price per holding when every
\* holding's weight buys at least half a share.
C6_TotalWithinCapitalPlusRounding ==
    (/\ Finished
     /\ SeqSum(w_opt) = total_val
     /\ \A k \in 1..Len(w_opt) : w_opt[k] >= 0) =>
        /\ RealizedTotal <= total_val + PriceTotal
        /\ (\A k \in 1..Len(df) : 2 * w_opt[k] >= df[k].Price)
              => 2 * (RealizedTotal - total_val) <= PriceTotal

\* a converged run whose rounded allocation costs more than the capital
C6_Witness ==
    /\ Finished /\ FullHistories /\ res.success
    /\ SeqSum(w_opt) = total_val
    /\ \A k \in 1..Len(df) : 2 * w_opt[k] >= df[k].Price
    /\ RealizedTotal > total_val

\* C7: the Optimizer never returns weights whose Sharpe ratio is below the
\* Sharpe ratio of the starting (as-held) weights.
C7_SharpeNotWorse ==
    (Finished /\ FullHistories /\ res.success) =>
        LET s0 == PairedSharpe(ByTicker(df, w0), total_val)
            s1 == PairedSharpe(ByTicker(df, w_opt), total_val)
        IN s0.nan \/ s1.nan \/ RatioLeq(s0, s1)

\* C8: a holding whose history is empty or has a single observation (no
\* return series) appears in neither the summary nor the return-series set.
C8_ShortHistoryExcluded ==
    /\ \A k \in 1..Len(returns_weekly) : Len(returns_weekly[k].ret) >= 1
    /\ \A k \in 1..Len(rows) : ~rows[k].ExpRet.nan

\* C9: when no eligible holding remains the run ends with an explicit
\* failure, not a crash, and the evaluation is never entered empty-handed.
C9_NoHoldingEndsExplicitly ==
    /\ (rows = <<>> /\ pc \notin {"input", "fetch"}) => pc = "stopped"
    /\ Evaluated => (df # <<>> /\ total_val > 0)

\* C10: when every selected holding has quantity zero (or nothing is
\* selected) the run stops with an explicit error before any history is
\* fetched, and no summary, metrics, optimization or allocation is produced.
C10_ZeroQuantityStops ==
    ((\A t \in DOMAIN qtys : qtys[t] = 0) /\ pc # "input") =>
        /\ pc = "stopped"
        /\ message = "Enter quantity > 0 for at least one selected ticker."
        /\ fetched = {} /\ rows = <<>> /\ df = <<>>
        /\ port_sharpe = RatioNaN /\ res = NoResult /\ opt = <<>>

\* a run stopped with tickers selected, all at quantity zero
C10_Witness ==
    /\ pc = "stopped"
    /\ selected # <<>>
    /\ \A t \in DOMAIN qtys : qtys[t] = 0

\* the weeks two return series have in common
Overlap(i, j) == Min(Len(returns_weekly[i].ret), Len(returns_weekly[j].ret))

\* C11: when two holdings' return series (each with at least one return)
\* have fewer than 2 weeks in common, the run fails and never goes on to the
\* metrics, the optimizer or the allocation with an undefined covariance.
C11_InsufficientOverlapFails ==
    (/\ Evaluated
     /\ \A k \in 1..Len(returns_weekly) : Len(returns_weekly[k].ret) >= 1) =>
        \A i, j \in 1..Len(cov) :
            i # j => (Overlap(i, j) >= 2 /\ ~cov[i][j].nan)

\* C12: no holding of the allocation table has fewer than 1 share, whatever
\* weight the solver gave it.
C12_AtLeastOneShare ==
    Finished => \A k \in 1..Len(opt) : opt[k].Qty >= 1

\* a finished run where a positive weight buys less than half a share and
\* the holding is allocated one share
C12_Witness ==
    /\ Finished
    /\ \E k \in 1..Len(df) :
          /\ w_opt[k] > 0
          /\ RoundHalfEven(w_opt[k], df[k].Price) = 0
          /\ opt[PosOf(opt, df[k].Ticker)].Qty = 1

\* the reported ratio s against the expected return exp and the variance var
\* it was computed from, for weights over den: with a positive volatility s
\* is (exp - rf) / sqrt(var); with volatility exactly 0, or undefined, s is
\* the undefined value
SharpeAgrees(s, exp, var, den) ==
    (~exp.nan /\ ~var.nan) =>
        /\ var.v > 0 => /\ ~s.nan
                        /\ s.num = exp.v - rf * den
                        /\ s.rad = var.v * DenScale
        /\ var.v <= 0 => s.nan

\* C13: the Sharpe ratio of the current and of the optimized portfolio is
\* (expected return - rf) / volatility when the volatility is not zero and
\* the undefined value when it is exactly 0; the run goes on either way.
C13_SharpeOrUndefined ==
    /\ Evaluated => SharpeAgrees(port_sharpe, port_exp, port_var, total_val)
    /\ Finished => SharpeAgrees(sharpe_opt, exp_opt, var_opt, SeqSum(w_opt_act))

\* a run that finished with a current volatility of exactly 0 (its Sharpe
\* undefined) and a positive optimized volatility (its Sharpe defined)
C13_Witness ==
    /\ Finished
    /\ ~port_exp.nan /\ ~port_var.nan /\ port_var.v = 0 /\ port_sharpe.nan
    /\ ~exp_opt.nan /\ ~var_opt.nan /\ var_opt.v > 0 /\ ~sharpe_opt.nan

\* C14: when more than 10 tickers are selected the selection is rejected:
\* no history is fetched for it and no summary, risk model, optimization
\* or allocation is produced.
C14_OverLimitRejected ==
    Len(selected) > MaxSelect =>
        /\ sidebar_error
        /\ fetched = {} /\ rows = <<>> /\ df = <<>> /\ cov = <<>>
        /\ res = NoResult /\ opt = <<>>

\* C15: with a single eligible holding the current variance is that
\* holding's own annualized variance (both undefined together) and the
\* current Sharpe is (holding expected return - rf) / holding volatility.
\* The weight is total_val over total_val, so the variance carries the
\* factor total_val^2 and the Sharpe numerator the factor total_val.
C15_SingleHolding ==
    (Evaluated /\ Len(df) = 1) =>
        LET h == df[1]
        IN /\ w0[1] = total_val
           /\ IF h.StdSq.nan THEN port_var.nan
              ELSE port_var = Fl(total_val * total_val * h.StdSq.v)
           /\ (~h.ExpRet.nan /\ ~h.StdSq.nan /\ h.StdSq.v > 0) =>
                 /\ ~port_sharpe.nan
                 /\ port_sharpe.num = total_val * (h.ExpRet.v - rf)
                 /\ port_sharpe.rad = total_val * total_val * h.StdSq.v * DenScale

\* a single holding of more than one share with a positive volatility
C15_Witness ==
    /\ Evaluated
    /\ Len(df) = 1
    /\ df[1].Qty > 1
    /\ ~df[1].StdSq.nan /\ df[1].StdSq.v > 0
    /\ ~port_sharpe.nan

\* C16: the current weights are quantity x price over total_val, the sum of
\* quantity x price; with total_val > 0 each is non-negative and they sum
\* to exactly 1 (the numerators sum to total_val).
C16_WeightsSumToOne ==
    (Evaluated /\ total_val > 0) =>
        /\ total_val = SeqSum([k \in 1..Len(df) |-> df[k].Qty * df[k].Price])
        /\ Len(w0) = Len(df)
        /\ \A k \in 1..Len(df) : w0[k] = df[k].Qty * df[k].Price /\ w0[k] >= 0
        /\ SeqSum(w0) = total_val

\* two holdings of unequal value
C16_Witness ==
    /\ Evaluated
    /\ Len(df) = 2
    /\ total_val > 0
    /\ w0[1] > w0[2]
    /\ df[2].Qty > 1

\* C17: the annualized covariance matrix is square, of the dimension of
\* the summary table, and symmetric: cov[i][j] and cov[j][i] are equal, or
\* undefined together.
C17_CovSymmetric ==
    Evaluated =>
        /\ Len(cov) = Len(df)
        /\ \A i \in 1..Len(cov) : Len(cov[i]) = Len(df)
        /\ \A i, j \in 1..Len(cov) : cov[i][j] = cov[j][i]

\* two holdings with different variances and a defined, non-zero covariance
C17_Witness ==
    /\ Evaluated
    /\ Len(cov) = 2
    /\ ~cov[1][2].nan /\ cov[1][2].v # 0
    /\ ~cov[1][1].nan /\ ~cov[2][2].nan /\ cov[1][1].v # cov[2][2].v

\* C18: the starting point handed to the solver is feasible for the bounds
\* and the constraint handed to it: each w0[k] lies between its lower bound
\* price/total_val and 1, sum(w0) = 1, and so the lower bounds sum to at
\* most 1.
C18_StartFeasible ==
    Evaluated =>
        /\ Len(LowerBounds(df)) = Len(w0)
        /\ \A k \in 1..Len(w0) :
              LowerBounds(df)[k] <= w0[k] /\ w0[k] <= total_val
        /\ SeqSum(w0) = total_val
        /\ SeqSum(LowerBounds(df)) <= total_val

\* the solver called for two holdings, one held at exactly one share (its
\* weight on its lower bound) and one above its bound
C18_Witness ==
    /\ pc = "done"
    /\ Len(df) = 2
    /\ \E k \in 1..2 : w0[k] = LowerBounds(df)[k]
    /\ \E k \in 1..2 : w0[k] > LowerBounds(df)[k]

=============================================================================
